---------------------------- MODULE Spec2Model ----------------------------
(***************************************************************************)
(* A model of rtags' QueryJob (src/src/QueryJob.cpp): the per-query job    *)
(* that filters, quotes, caps and streams output lines to a Connection.    *)
(*                                                                         *)
(* Strings are sequences of one-character strings.  Every C++ method is    *)
(* an operator that computes the method's effect (return value, new field  *)
(* values, what reached the Connection and the log) from the job's fields  *)
(* and the call's inputs; one action per public entry point applies it.    *)
(***************************************************************************)
EXTENDS Integers, Sequences, FiniteSets, TLC

VARIABLES
    build,              \* "debug" | "release": whether assert() is compiled in
    pc,                 \* "idle" | "executing" (inside run) | "dead" (process stopped)
    mAborted,           \* QueryJob::mAborted
    mLinesWritten,      \* QueryJob::mLinesWritten
    mQueryMessage,      \* QueryJob::mQueryMessage (present = FALSE: null pointer)
    mJobFlags,          \* QueryJob::mJobFlags
    symbols,            \* mProject->symbols(): the ordered Location -> CursorInfo map
    mPathFilters,       \* QueryJob::mPathFilters (List<String>*, possibly null)
    mPathFiltersRegex,  \* QueryJob::mPathFiltersRegex (List<std::regex>*, possibly null)
    mConnection,        \* QueryJob::mConnection (0: null)
    last,               \* observation of the most recent call and its effect
    failedInRun,        \* history: a Connection send has failed since run() bound it
    sentCapped,         \* history: Connection::write calls made by calls without IgnoreMax
    refusedInRun,       \* history: writeRaw has refused a line at the cap since run() bound
    running             \* history: the Connection passed to the run() in progress (0: none)

vars == <<build, pc, mAborted, mLinesWritten, mQueryMessage, mJobFlags, symbols,
          mPathFilters, mPathFiltersRegex, mConnection, last, failedInRun,
          sentCapped, refusedInRun, running>>

---------------------------------------------------------------------------
(* Bounds of the exploration *)

MaxCalls == 3
MaxCap == 2
MaxQuoteLen == 3
MaxFilterLen == 4
MaxEntries == 3
MaxLine == 4

---------------------------------------------------------------------------
(* Characters and strings *)

DQ == "\""
BS == "\\"
TAB == "\t"
SP == " "

SeqsUpTo(S, n) == UNION {[1..k -> S] : k \in 0..n}

\* String::startsWith: p is a prefix of s
IsPrefix(p, s) == Len(p) <= Len(s) /\ SubSeq(s, 1, Len(p)) = p

\* p occurs somewhere in s
Contains(s, p) == \E i \in 0..(Len(s) - Len(p)) : SubSeq(s, i + 1, i + Len(p)) = p

---------------------------------------------------------------------------
(* Flags *)

JobFlags == {"WriteUnfiltered", "QuoteOutput", "QuietJob"}
WriteFlags == {"IgnoreMax", "DontQuote", "Unfiltered"}
QueryFlags == {"SilentQuery", "MatchRegex", "FilterSystemIncludes",
               "ContainingFunction", "CursorKind", "DisplayName"}

\* the job built by QueryJob(jobFlags, proj): no query message
NoQuery == [present |-> FALSE, max |-> -1, minLine |-> -1, maxLine |-> -1,
            flags |-> {}, pathFilters |-> <<>>]

\* a null List pointer
NullList == [isNull |-> TRUE, items |-> <<>>]

\* QueryJob::queryFlags(): mQueryMessage ? mQueryMessage->flags() : 0
queryFlags == IF mQueryMessage.present THEN mQueryMessage.flags ELSE {}

Connections == {1, 2}

---------------------------------------------------------------------------
(* QueryJob::QueryJob: the two constructors *)

\* assert(query) of the first constructor (callers pass a non-null message)
\* mPathFilters as built at lines 35-47: literal list unless MatchRegex
InitPathFilters(query) ==
    IF query.present /\ query.pathFilters # <<>> /\ "MatchRegex" \notin query.flags
    THEN [isNull |-> FALSE, items |-> query.pathFilters]
    ELSE NullList

\* mPathFiltersRegex as built at lines 35-47: one compiled regex per filter
InitPathFiltersRegex(query) ==
    IF query.present /\ query.pathFilters # <<>> /\ "MatchRegex" \in query.flags
    THEN [isNull |-> FALSE, items |-> query.pathFilters]
    ELSE NullList

\* mJobFlags after construction: SilentQuery sets QuietJob
InitJobFlags(query, jobFlags) ==
    IF query.present /\ "SilentQuery" \in query.flags
    THEN jobFlags \cup {"QuietJob"}
    ELSE jobFlags

---------------------------------------------------------------------------
(* QueryJob::filter *)

\* isspace() in the C locale
isspace(c) == c \in {SP, TAB, "\n", "\r", "\f"}

\* while (*val && isspace(*val)) ++val;   (i: 1-based index of val in value)
RECURSIVE SkipSpace(_, _)
SkipSpace(value, i) ==
    IF i <= Len(value) /\ isspace(value[i]) THEN SkipSpace(value, i + 1) ELSE i

\* the root of the system include tree that Path::isSystem recognises
SystemRoot == <<"/", "u", "/">>

\* Path::isSystem(path): the path begins with the system include tree
isSystem(path) == IsPrefix(SystemRoot, path)

\* RTags::startsWith(list, str): str starts with at least one element of list
startsWith(list, str) == \E k \in 1..Len(list) : IsPrefix(list[k], str)

\* std::regex_search(str, rx) for a pattern without metacharacters:
\* the pattern's text occurs somewhere in str
regex_search(str, rx) == Contains(str, rx)

\* the loop of lines 211-216 over the compiled patterns
RECURSIVE RegexLoop(_, _, _)
RegexLoop(ref, list, i) ==
    IF i > Len(list) THEN FALSE
    ELSE IF regex_search(ref, list[i]) THEN TRUE
    ELSE RegexLoop(ref, list, i + 1)

filter_SystemCheckLast(value) ==
    IF mPathFilters.isNull /\ mPathFiltersRegex.isNull
       /\ "FilterSystemIncludes" \notin queryFlags
    THEN TRUE
    ELSE LET val == SkipSpace(value, 1)
             ref == SubSeq(value, val, Len(value))
             sys == "FilterSystemIncludes" \in queryFlags /\ isSystem(ref)
         IN  IF mPathFilters.isNull /\ mPathFiltersRegex.isNull THEN ~sys
             ELSE IF ~mPathFilters.isNull /\ startsWith(mPathFilters.items, ref) THEN TRUE
             ELSE IF ~mPathFiltersRegex.isNull /\ RegexLoop(ref, mPathFiltersRegex.items, 1)
                  THEN TRUE
             ELSE FALSE

filter_NoTrim(value) ==
    IF mPathFilters.isNull /\ mPathFiltersRegex.isNull
       /\ "FilterSystemIncludes" \notin queryFlags
    THEN TRUE
    ELSE IF "FilterSystemIncludes" \in queryFlags /\ isSystem(value) THEN FALSE
    ELSE IF mPathFilters.isNull /\ mPathFiltersRegex.isNull THEN TRUE
    ELSE IF ~mPathFilters.isNull THEN startsWith(mPathFilters.items, value)
    ELSE RegexLoop(value, mPathFiltersRegex.items, 1)

\* bool QueryJob::filter(const String &value) const
filter(value) ==
    IF mPathFilters.isNull /\ mPathFiltersRegex.isNull
       /\ "FilterSystemIncludes" \notin queryFlags
    THEN TRUE
    ELSE LET val == SkipSpace(value, 1)
             ref == SubSeq(value, val, Len(value))
         IN  IF "FilterSystemIncludes" \in queryFlags /\ isSystem(ref) THEN FALSE
             ELSE IF mPathFilters.isNull /\ mPathFiltersRegex.isNull THEN TRUE
             ELSE IF ~mPathFilters.isNull THEN startsWith(mPathFilters.items, ref)
             ELSE RegexLoop(ref, mPathFiltersRegex.items, 1)

---------------------------------------------------------------------------
(* The quoting loop of QueryJob::write(const String &, unsigned int) *)

\* lines 77-87: i indexes out, ch is the write position in o, l the length
RECURSIVE QuoteLoop(_, _, _, _, _)
QuoteLoop(out, i, o, ch, l) ==
    IF i > Len(out) THEN [o |-> o, l |-> l]
    ELSE IF out[i] = DQ
         THEN QuoteLoop(out, i + 1, [o EXCEPT ![ch] = BS], ch + 2, l + 2)
         ELSE QuoteLoop(out, i + 1, [o EXCEPT ![ch] = out[i]], ch + 1, l + 1)

\* a slip that also escapes backslashes
RECURSIVE QuoteLoopEscapingBackslash(_, _, _, _, _)
QuoteLoopEscapingBackslash(out, i, o, ch, l) ==
    IF i > Len(out) THEN [o |-> o, l |-> l]
    ELSE IF out[i] = DQ
         THEN QuoteLoopEscapingBackslash(out, i + 1, [o EXCEPT ![ch] = BS], ch + 2, l + 2)
         ELSE IF out[i] = BS
         THEN QuoteLoopEscapingBackslash(out, i + 1,
                  [o EXCEPT ![ch] = BS, ![ch + 1] = BS], ch + 2, l + 2)
         ELSE QuoteLoopEscapingBackslash(out, i + 1, [o EXCEPT ![ch] = out[i]],
                  ch + 1, l + 1)

Quote_EscapingBackslash(out) ==
    LET r == QuoteLoopEscapingBackslash(out, 1, [k \in 1..(Len(out) * 2 + 2) |-> DQ], 2, 2)
    IN  SubSeq(r.o, 1, r.l)

\* a slip that advances the write position by one after the backslash, so
\* that the next byte overwrites the quote it escapes
RECURSIVE QuoteLoopLosingQuote(_, _, _, _, _)
QuoteLoopLosingQuote(out, i, o, ch, l) ==
    IF i > Len(out) THEN [o |-> o, l |-> l]
    ELSE IF out[i] = DQ
         THEN QuoteLoopLosingQuote(out, i + 1, [o EXCEPT ![ch] = BS], ch + 1, l + 1)
         ELSE QuoteLoopLosingQuote(out, i + 1, [o EXCEPT ![ch] = out[i]], ch + 1, l + 1)

Quote_LosingQuote(out) ==
    LET r == QuoteLoopLosingQuote(out, 1, [k \in 1..(Len(out) * 2 + 2) |-> DQ], 2, 2)
    IN  SubSeq(r.o, 1, r.l)

\* lines 74-88: String o(out.size() * 2 + 2, '"'), the loop, o.truncate(l)
Quote(out) ==
    LET r == QuoteLoop(out, 1, [k \in 1..(Len(out) * 2 + 2) |-> DQ], 2, 2)
    IN  SubSeq(r.o, 1, r.l)

---------------------------------------------------------------------------
(* Effects: what one call returns and does *)

\* a call that returns ret and touches nothing
NoEffect(ret) ==
    [outcome |-> "returned", ret |-> ret,
     lines |-> mLinesWritten, aborted |-> mAborted,
     sends |-> <<>>,       \* Connection::write calls made: <<[line, ok]>>
     echoed |-> <<>>,      \* lines given to error("=> %s")
     raw |-> <<>>,         \* the text handed to writeRaw
     lookups |-> 0,        \* symbols.find calls
     diag |-> 0,           \* "Somehow can't find" diagnostics
     out |-> <<>>,         \* the line assembled by write(location)
     fn |-> <<>>,          \* the symbolName appended as containing function
     steps |-> 0,          \* --it steps of the backward walk
     underflow |-> FALSE]  \* the walk decremented symbols.begin()

\* a failed assert() of a debug build: the process stops
AssertFailed == [NoEffect(FALSE) EXCEPT !.outcome = "assert"]

\* QueryJob::abort(): the new value of mAborted
abort == TRUE

---------------------------------------------------------------------------
(* QueryJob::writeRaw *)

\* the cap tested with > instead of ==
writeRaw_CapOffByOne(out, flags, connOk) ==
    LET counted == "IgnoreMax" \notin flags /\ mQueryMessage.present
        max == mQueryMessage.max
        lines == IF counted THEN mLinesWritten + 1 ELSE mLinesWritten
        e == [NoEffect(TRUE) EXCEPT
                 !.raw = <<out>>, !.lines = lines,
                 !.echoed = IF "QuietJob" \notin mJobFlags THEN <<out>> ELSE <<>>]
    IN  IF mConnection = 0 /\ build = "debug" THEN [AssertFailed EXCEPT !.raw = <<out>>]
        ELSE IF counted /\ max # -1 /\ mLinesWritten > max
             THEN [NoEffect(FALSE) EXCEPT !.raw = <<out>>]
        ELSE IF counted /\ build = "debug" /\ ~(mLinesWritten < max \/ max = -1)
             THEN [AssertFailed EXCEPT !.raw = <<out>>]
        ELSE IF mConnection # 0
             THEN IF ~connOk
                  THEN [e EXCEPT !.ret = FALSE, !.aborted = abort,
                                 !.sends = <<[line |-> out, ok |-> FALSE]>>]
                  ELSE [e EXCEPT !.sends = <<[line |-> out, ok |-> TRUE]>>]
             ELSE e

\* a failed send that does not call abort()
writeRaw_NoAbort(out, flags, connOk) ==
    LET counted == "IgnoreMax" \notin flags /\ mQueryMessage.present
        max == mQueryMessage.max
        lines == IF counted THEN mLinesWritten + 1 ELSE mLinesWritten
        e == [NoEffect(TRUE) EXCEPT
                 !.raw = <<out>>, !.lines = lines,
                 !.echoed = IF "QuietJob" \notin mJobFlags THEN <<out>> ELSE <<>>]
    IN  IF mConnection = 0 /\ build = "debug" THEN [AssertFailed EXCEPT !.raw = <<out>>]
        ELSE IF counted /\ max # -1 /\ mLinesWritten = max
             THEN [NoEffect(FALSE) EXCEPT !.raw = <<out>>]
        ELSE IF mConnection # 0
             THEN IF ~connOk
                  THEN [e EXCEPT !.ret = FALSE,
                                 !.sends = <<[line |-> out, ok |-> FALSE]>>]
                  ELSE [e EXCEPT !.sends = <<[line |-> out, ok |-> TRUE]>>]
             ELSE e

\* a failed send that is tried a second time
writeRaw_Retry(out, flags, connOk) ==
    LET counted == "IgnoreMax" \notin flags /\ mQueryMessage.present
        max == mQueryMessage.max
        lines == IF counted THEN mLinesWritten + 1 ELSE mLinesWritten
        e == [NoEffect(TRUE) EXCEPT
                 !.raw = <<out>>, !.lines = lines,
                 !.echoed = IF "QuietJob" \notin mJobFlags THEN <<out>> ELSE <<>>]
    IN  IF mConnection = 0 /\ build = "debug" THEN [AssertFailed EXCEPT !.raw = <<out>>]
        ELSE IF counted /\ max # -1 /\ mLinesWritten = max
             THEN [NoEffect(FALSE) EXCEPT !.raw = <<out>>]
        ELSE IF mConnection # 0
             THEN IF ~connOk
                  THEN [e EXCEPT !.ret = FALSE, !.aborted = abort,
                                 !.sends = <<[line |-> out, ok |-> FALSE],
                                             [line |-> out, ok |-> FALSE]>>]
                  ELSE [e EXCEPT !.sends = <<[line |-> out, ok |-> TRUE]>>]
             ELSE e

\* a refusal at the cap that aborts the job
writeRaw_RefusalAborts(out, flags, connOk) ==
    LET counted == "IgnoreMax" \notin flags /\ mQueryMessage.present
        max == mQueryMessage.max
        lines == IF counted THEN mLinesWritten + 1 ELSE mLinesWritten
        e == [NoEffect(TRUE) EXCEPT
                 !.raw = <<out>>, !.lines = lines,
                 !.echoed = IF "QuietJob" \notin mJobFlags THEN <<out>> ELSE <<>>]
    IN  IF mConnection = 0 /\ build = "debug" THEN [AssertFailed EXCEPT !.raw = <<out>>]
        ELSE IF counted /\ max # -1 /\ mLinesWritten = max
             THEN [NoEffect(FALSE) EXCEPT !.raw = <<out>>, !.aborted = abort]
        ELSE IF mConnection # 0
             THEN IF ~connOk
                  THEN [e EXCEPT !.ret = FALSE, !.aborted = abort,
                                 !.sends = <<[line |-> out, ok |-> FALSE]>>]
                  ELSE [e EXCEPT !.sends = <<[line |-> out, ok |-> TRUE]>>]
             ELSE e

\* an echo made only after the Connection accepted the line
writeRaw_EchoAfterSend(out, flags, connOk) ==
    LET counted == "IgnoreMax" \notin flags /\ mQueryMessage.present
        max == mQueryMessage.max
        lines == IF counted THEN mLinesWritten + 1 ELSE mLinesWritten
        e == [NoEffect(TRUE) EXCEPT !.raw = <<out>>, !.lines = lines]
    IN  IF mConnection = 0 /\ build = "debug" THEN [AssertFailed EXCEPT !.raw = <<out>>]
        ELSE IF counted /\ max # -1 /\ mLinesWritten = max
             THEN [NoEffect(FALSE) EXCEPT !.raw = <<out>>]
        ELSE IF mConnection # 0
             THEN IF ~connOk
                  THEN [e EXCEPT !.ret = FALSE, !.aborted = abort,
                                 !.sends = <<[line |-> out, ok |-> FALSE]>>]
                  ELSE [e EXCEPT !.sends = <<[line |-> out, ok |-> TRUE]>>,
                                 !.echoed = IF "QuietJob" \notin mJobFlags
                                            THEN <<out>> ELSE <<>>]
             ELSE e

\* a counter that is incremented only once the Connection accepted the line
writeRaw_CountSuccess(out, flags, connOk) ==
    LET counted == "IgnoreMax" \notin flags /\ mQueryMessage.present
        max == mQueryMessage.max
        lines == IF counted THEN mLinesWritten + 1 ELSE mLinesWritten
        e == [NoEffect(TRUE) EXCEPT
                 !.raw = <<out>>,
                 !.echoed = IF "QuietJob" \notin mJobFlags THEN <<out>> ELSE <<>>]
    IN  IF mConnection = 0 /\ build = "debug" THEN [AssertFailed EXCEPT !.raw = <<out>>]
        ELSE IF counted /\ max # -1 /\ mLinesWritten = max
             THEN [NoEffect(FALSE) EXCEPT !.raw = <<out>>]
        ELSE IF mConnection # 0
             THEN IF ~connOk
                  THEN [e EXCEPT !.ret = FALSE, !.aborted = abort,
                                 !.sends = <<[line |-> out, ok |-> FALSE]>>]
                  ELSE [e EXCEPT !.lines = lines,
                                 !.sends = <<[line |-> out, ok |-> TRUE]>>]
             ELSE [e EXCEPT !.lines = lines]

\* bool QueryJob::writeRaw(const String &out, unsigned int flags)
\* connOk: what mConnection->write(out) returns if it is called
writeRaw(out, flags, connOk) ==
    LET counted == "IgnoreMax" \notin flags /\ mQueryMessage.present
        max == mQueryMessage.max
        lines == IF counted THEN mLinesWritten + 1 ELSE mLinesWritten
        e == [NoEffect(TRUE) EXCEPT
                 !.raw = <<out>>, !.lines = lines,
                 !.echoed = IF "QuietJob" \notin mJobFlags THEN <<out>> ELSE <<>>]
    IN  IF mConnection = 0 /\ build = "debug"                  \* assert(mConnection)
        THEN [AssertFailed EXCEPT !.raw = <<out>>]
        ELSE IF counted /\ max # -1 /\ mLinesWritten = max
             THEN [NoEffect(FALSE) EXCEPT !.raw = <<out>>]
        ELSE IF counted /\ build = "debug" /\ ~(mLinesWritten < max \/ max = -1)
             THEN [AssertFailed EXCEPT !.raw = <<out>>]
        ELSE IF mConnection # 0
             THEN IF ~connOk
                  THEN [e EXCEPT !.ret = FALSE, !.aborted = abort,
                                 !.sends = <<[line |-> out, ok |-> FALSE]>>]
                  ELSE [e EXCEPT !.sends = <<[line |-> out, ok |-> TRUE]>>]
             ELSE e

---------------------------------------------------------------------------
(* QueryJob::write(const String &, unsigned int) *)

\* a bypass that still excludes system paths
write_SystemAlways(out, flags, connOk) ==
    IF "FilterSystemIncludes" \in queryFlags
       /\ isSystem(SubSeq(out, SkipSpace(out, 1), Len(out)))
    THEN NoEffect(TRUE)
    ELSE IF "WriteUnfiltered" \in mJobFlags \/ "Unfiltered" \in flags \/ filter(out)
    THEN IF "QuoteOutput" \in mJobFlags /\ "DontQuote" \notin flags
         THEN writeRaw(Quote(out), flags, connOk)
         ELSE writeRaw(out, flags, connOk)
    ELSE NoEffect(TRUE)

\* a rejected line reported as a failure
write_RejectIsError(out, flags, connOk) ==
    IF "WriteUnfiltered" \in mJobFlags \/ "Unfiltered" \in flags \/ filter(out)
    THEN IF "QuoteOutput" \in mJobFlags /\ "DontQuote" \notin flags
         THEN writeRaw(Quote(out), flags, connOk)
         ELSE writeRaw(out, flags, connOk)
    ELSE NoEffect(FALSE)

\* bool QueryJob::write(const String &out, unsigned int flags)
write(out, flags, connOk) ==
    IF "WriteUnfiltered" \in mJobFlags \/ "Unfiltered" \in flags \/ filter(out)
    THEN IF "QuoteOutput" \in mJobFlags /\ "DontQuote" \notin flags
         THEN writeRaw(Quote(out), flags, connOk)
         ELSE writeRaw(out, flags, connOk)
    ELSE NoEffect(TRUE)

---------------------------------------------------------------------------
(* Location, CursorInfo and the symbol table *)

NullLocation == [fileId |-> 0, line |-> 0, column |-> 0]

\* Location::isNull(): no file
isNull(location) == location.fileId = 0

\* Location::operator<: by fileId, then line, then column
LocationLess(a, b) ==
    \/ a.fileId < b.fileId
    \/ a.fileId = b.fileId /\ a.line < b.line
    \/ a.fileId = b.fileId /\ a.line = b.line /\ a.column < b.column

\* comparePosition(line, column, line2, column2): line first, then column
comparePosition(line, column, line2, column2) ==
    IF line < line2 THEN -1
    ELSE IF line > line2 THEN 1
    ELSE IF column < column2 THEN -1
    ELSE IF column > column2 THEN 1
    ELSE 0

\* RTags::isContainer(kind): the kinds that open a scope
isContainer(kind) == kind \in {"FunctionDecl", "ClassDecl"}

DigitChar == <<"0", "1", "2", "3", "4", "5", "6", "7", "8", "9">>

\* the decimal text of n >= 0
RECURSIVE Digits(_)
Digits(n) ==
    IF n < 10 THEN <<DigitChar[n + 1]>>
    ELSE Digits(n \div 10) \o <<DigitChar[(n % 10) + 1]>>

\* Location::path(): the path of the file with this fileId
Path(fileId) == <<"/">> \o Digits(fileId)

\* Location::key(keyFlags): path:line:column
key(location) ==
    Path(location.fileId) \o <<":">> \o Digits(location.line)
        \o <<":">> \o Digits(location.column)

\* symbols.find(location): the index of the entry, Len(symbols) + 1 for end()
find(location) ==
    IF \E k \in 1..Len(symbols) : symbols[k].loc = location
    THEN CHOOSE k \in 1..Len(symbols) : symbols[k].loc = location
    ELSE Len(symbols) + 1

FunctionPrefix == <<TAB, "f", "u", "n", "c", "t", "i", "o", "n", ":", SP>>

\* what decrementing symbols.begin() (undefined behaviour) can lead to:
\* the garbage read has another fileId and the loop breaks; the read faults;
\* or the garbage passes every test and its name is appended
UBOutcomes == {"break", "crash", "garbage"}

GarbageName == <<"?">>

---------------------------------------------------------------------------
(* The containing-function loop of QueryJob::write(const Location &) *)

\* does the entry at index it contain (line, column), lines 160-163
Encloses(it, line, column) ==
    LET ci == symbols[it].info
    IN  /\ ci.isDefinition
        /\ isContainer(ci.kind)
        /\ comparePosition(line, column, ci.startLine, ci.startColumn) >= 0
        /\ comparePosition(line, column, ci.endLine, ci.endColumn) <= 0

\* while (true) { --it; ... } of lines 156-169, entered with the iterator it
RECURSIVE Walk(_, _, _, _, _, _)
Walk(it, fileId, line, column, steps, ub) ==
    LET prev == it - 1                                           \* --it
        none == [fn |-> <<>>, steps |-> steps + 1, underflow |-> FALSE, crash |-> FALSE]
    IN  IF prev = 0                                              \* it was begin()
        THEN [none EXCEPT !.underflow = TRUE, !.crash = (ub = "crash"),
                          !.fn = IF ub = "garbage" THEN GarbageName ELSE <<>>]
        ELSE IF symbols[prev].loc.fileId # fileId THEN none
        ELSE IF Encloses(prev, line, column)
             THEN [none EXCEPT !.fn = symbols[prev].info.symbolName]
        ELSE IF prev = 1 THEN none                               \* it == begin()
        ELSE Walk(prev, fileId, line, column, steps + 1, ub)

---------------------------------------------------------------------------
(* QueryJob::write(const Location &, unsigned int) *)

\* the kind appended before the display name
annotateAndWrite_KindFirst(location, connOk, ub) ==
    LET containingFunction == "ContainingFunction" \in queryFlags
        cursorKind == "CursorKind" \in queryFlags
        displayName == "DisplayName" \in queryFlags
        annotate == containingFunction \/ cursorKind \/ displayName
        it == find(location)
        found == annotate /\ it # Len(symbols) + 1
        w == IF found /\ containingFunction
             THEN Walk(it, location.fileId, location.line, location.column, 0, ub)
             ELSE [fn |-> <<>>, steps |-> 0, underflow |-> FALSE, crash |-> FALSE]
        out == key(location)
                 \o (IF found /\ cursorKind
                     THEN <<TAB>> \o symbols[it].info.kindSpelling ELSE <<>>)
                 \o (IF found /\ displayName
                     THEN <<TAB>> \o symbols[it].info.displayName ELSE <<>>)
                 \o (IF w.fn # <<>> THEN FunctionPrefix \o w.fn ELSE <<>>)
        seen == [lookups |-> IF annotate THEN 1 ELSE 0,
                 diag |-> IF annotate /\ ~found THEN 1 ELSE 0]
    IN  IF w.crash
        THEN [NoEffect(FALSE) EXCEPT !.outcome = "crash", !.lookups = seen.lookups,
                  !.steps = w.steps, !.underflow = w.underflow]
        ELSE [write(out, {}, connOk) EXCEPT
                  !.lookups = seen.lookups, !.diag = seen.diag, !.out = out,
                  !.fn = w.fn, !.steps = w.steps, !.underflow = w.underflow]

\* lines 138-173: assemble the line, annotate it, emit it through write(out)
annotateAndWrite(location, connOk, ub) ==
    LET containingFunction == "ContainingFunction" \in queryFlags
        cursorKind == "CursorKind" \in queryFlags
        displayName == "DisplayName" \in queryFlags
        annotate == containingFunction \/ cursorKind \/ displayName
        it == find(location)
        found == annotate /\ it # Len(symbols) + 1
        w == IF found /\ containingFunction
             THEN Walk(it, location.fileId, location.line, location.column, 0, ub)
             ELSE [fn |-> <<>>, steps |-> 0, underflow |-> FALSE, crash |-> FALSE]
        out == key(location)
                 \o (IF found /\ displayName
                     THEN <<TAB>> \o symbols[it].info.displayName ELSE <<>>)
                 \o (IF found /\ cursorKind
                     THEN <<TAB>> \o symbols[it].info.kindSpelling ELSE <<>>)
                 \o (IF w.fn # <<>> THEN FunctionPrefix \o w.fn ELSE <<>>)
        seen == [lookups |-> IF annotate THEN 1 ELSE 0,
                 diag |-> IF annotate /\ ~found THEN 1 ELSE 0]
    IN  IF w.crash
        THEN [NoEffect(FALSE) EXCEPT !.outcome = "crash", !.lookups = seen.lookups,
                  !.steps = w.steps, !.underflow = w.underflow]
        ELSE [write(out, {}, connOk) EXCEPT
                  !.lookups = seen.lookups, !.diag = seen.diag, !.out = out,
                  !.fn = w.fn, !.steps = w.steps, !.underflow = w.underflow]

\* a range that excludes its two end lines
rangeCheckAndWrite_Exclusive(location, connOk, ub) ==
    LET minLine == IF mQueryMessage.present THEN mQueryMessage.minLine ELSE -1
        maxLine == mQueryMessage.maxLine
    IN  IF minLine # -1 /\ maxLine = -1 /\ build = "debug" THEN AssertFailed
        ELSE IF minLine # -1 /\ (location.line <= minLine \/ location.line >= maxLine)
             THEN NoEffect(FALSE)
        ELSE annotateAndWrite(location, connOk, ub)

\* lines 127-137: the query's line range, then the rest
rangeCheckAndWrite(location, connOk, ub) ==
    LET minLine == IF mQueryMessage.present THEN mQueryMessage.minLine ELSE -1
        maxLine == mQueryMessage.maxLine
    IN  IF minLine # -1 /\ maxLine = -1 /\ build = "debug" THEN AssertFailed
        ELSE IF minLine # -1 /\ (location.line < minLine \/ location.line > maxLine)
             THEN NoEffect(FALSE)
        ELSE annotateAndWrite(location, connOk, ub)

\* the method without its null check
writeLocation_NoNullCheck(location, flags, connOk, ub) ==
    rangeCheckAndWrite(location, connOk, ub)

\* bool QueryJob::write(const Location &location, unsigned int /* flags */)
writeLocation(location, flags, connOk, ub) ==
    IF isNull(location) THEN NoEffect(FALSE)
    ELSE rangeCheckAndWrite(location, connOk, ub)

---------------------------------------------------------------------------
(* QueryJob::write(const std::shared_ptr<CursorInfo> &, unsigned int) *)

\* a shared_ptr<CursorInfo>: null, or pointing to a record
Pointer(null, info) == [null |-> null, info |-> info]

\* CursorInfo::isNull(): the record names no symbol
isNullInfo(info) == info.symbolName = <<>>

\* CursorInfo::toString(ciflags, keyFlags): the text of the record
toString(info, ciflags) == info.symbolName \o <<TAB>> \o info.kindSpelling

\* the caller's flags handed on to write(text) as its call flags
writeCursorInfo_PassingFlags(ci, ciflags, connOk) ==
    IF ci.null \/ isNullInfo(ci.info) THEN NoEffect(FALSE)
    ELSE write(toString(ci.info, ciflags), ciflags, connOk)

\* bool QueryJob::write(const std::shared_ptr<CursorInfo> &ci, unsigned int ciflags)
writeCursorInfo(ci, ciflags, connOk) ==
    IF ci.null \/ isNullInfo(ci.info) THEN NoEffect(FALSE)
    ELSE LET e == write(toString(ci.info, ciflags), {}, connOk)
         IN  IF e.outcome = "returned" /\ ~e.ret THEN [e EXCEPT !.ret = FALSE]
             ELSE e

---------------------------------------------------------------------------
(* Actions: the runner's run() and the calls execute() makes *)

\* the observation of a call: its inputs, the fields before it, its effect
Observed(op, line, loc, flags, eff) ==
    [op |-> op, line |-> line, loc |-> loc, flags |-> flags,
     preLines |-> mLinesWritten, preAborted |-> mAborted,
     preFailed |-> failedInRun, preRefused |-> refusedInRun,
     bound |-> mConnection,      \* mConnection when the call was made
     executed |-> 0,             \* what execute() returned (run only)
     code |-> 0,                 \* what run() returned (run only)
     eff |-> eff]

\* the call reached writeRaw's cap test (lines 100-102) with the flags it was
\* given, without IgnoreMax, when linesWritten had reached a cap max # -1
RefusedAtCap(op, flags, eff) ==
    /\ eff.raw # <<>>
    /\ mQueryMessage.present /\ mQueryMessage.max # -1
    /\ mLinesWritten = mQueryMessage.max
    /\ op \in {"write", "writeRaw"} => "IgnoreMax" \notin flags

\* one call of a method whose effect is eff
Call(op, line, loc, flags, eff) ==
    /\ pc # "dead"
    /\ sentCapped < MaxCalls /\ mLinesWritten < MaxCalls
    /\ mLinesWritten' = eff.lines
    /\ mAborted' = eff.aborted
    /\ pc' = IF eff.outcome = "returned" THEN pc ELSE "dead"
    /\ last' = Observed(op, line, loc, flags, eff)
    /\ failedInRun' = (failedInRun \/ \E k \in 1..Len(eff.sends) : ~eff.sends[k].ok)
    /\ sentCapped' = IF op \in {"write", "writeRaw"} /\ "IgnoreMax" \in flags
                     THEN sentCapped
                     ELSE sentCapped + Len(eff.sends)
    /\ refusedInRun' = (refusedInRun \/ RefusedAtCap(op, flags, eff))
    /\ UNCHANGED <<build, mQueryMessage, mJobFlags, symbols, mPathFilters,
                   mPathFiltersRegex, mConnection, running>>

\* execute() calls write(out, flags)
WriteText(out, flags, connOk) ==
    Call("write", out, NullLocation, flags, write(out, flags, connOk))

\* execute() calls writeRaw(out, flags)
WriteRaw(out, flags, connOk) ==
    Call("writeRaw", out, NullLocation, flags, writeRaw(out, flags, connOk))

\* execute() calls write(location, flags)
WriteLocation(location, flags, connOk, ub) ==
    Call("writeLocation", <<>>, location, flags, writeLocation(location, flags, connOk, ub))

\* execute() calls write(ci, ciflags); the observation keeps the record's text
WriteCursorInfo(ci, ciflags, connOk) ==
    Call("writeCursorInfo",
         IF ci.null \/ isNullInfo(ci.info) THEN <<>> ELSE toString(ci.info, ciflags),
         NullLocation, ciflags, writeCursorInfo(ci, ciflags, connOk))

\* filter(value): a const method, nothing but the observation changes
Filter(value) ==
    /\ pc # "dead"
    /\ last' = Observed("filter", value, NullLocation, {}, NoEffect(filter(value)))
    /\ UNCHANGED <<build, pc, mAborted, mLinesWritten, mQueryMessage, mJobFlags, symbols,
                   mPathFilters, mPathFiltersRegex, mConnection, failedInRun,
                   sentCapped, refusedInRun, running>>

\* int QueryJob::run(Connection *connection), up to the call of execute()
Run(connection) ==
    /\ pc = "idle"
    /\ mConnection' = connection
    /\ pc' = "executing"
    /\ failedInRun' = FALSE
    /\ refusedInRun' = FALSE
    /\ running' = connection
    /\ last' = [Observed("run", <<>>, NullLocation, {}, NoEffect(TRUE))
                   EXCEPT !.bound = connection, !.preFailed = FALSE,
                          !.preRefused = FALSE]
    /\ UNCHANGED <<build, mAborted, mLinesWritten, mQueryMessage, mJobFlags, symbols,
                   mPathFilters, mPathFiltersRegex, sentCapped>>

\* a run() that leaves the Connection bound when it returns
Finish_NoUnbind(ret) ==
    /\ pc = "executing"
    /\ mConnection' = mConnection
    /\ pc' = "idle"
    /\ running' = 0
    /\ last' = [Observed("finish", <<>>, NullLocation, {}, NoEffect(TRUE))
                   EXCEPT !.bound = mConnection, !.executed = ret, !.code = ret]
    /\ UNCHANGED <<build, mAborted, mLinesWritten, mQueryMessage, mJobFlags, symbols,
                   mPathFilters, mPathFiltersRegex, failedInRun, sentCapped,
                   refusedInRun>>

\* execute() returns ret: run() unbinds the Connection and returns ret
\* (lines 224-226)
Finish(ret) ==
    /\ pc = "executing"
    /\ mConnection' = 0
    /\ pc' = "idle"
    /\ running' = 0
    /\ last' = [Observed("finish", <<>>, NullLocation, {}, NoEffect(TRUE))
                   EXCEPT !.bound = 0, !.executed = ret, !.code = ret]
    /\ UNCHANGED <<build, mAborted, mLinesWritten, mQueryMessage, mJobFlags, symbols,
                   mPathFilters, mPathFiltersRegex, failedInRun, sentCapped,
                   refusedInRun>>

\* the state after construction from (query, jobFlags, project's table)
Constructed(b, query, jobFlags, table) ==
    /\ build = b
    /\ pc = "idle"
    /\ mAborted = FALSE
    /\ mLinesWritten = 0
    /\ mQueryMessage = query
    /\ mJobFlags = InitJobFlags(query, jobFlags)
    /\ symbols = table
    /\ mPathFilters = InitPathFilters(query)
    /\ mPathFiltersRegex = InitPathFiltersRegex(query)
    /\ mConnection = 0
    /\ failedInRun = FALSE
    /\ sentCapped = 0
    /\ refusedInRun = FALSE
    /\ running = 0
    /\ last = [op |-> "new", line |-> <<>>, loc |-> NullLocation, flags |-> {},
               preLines |-> 0, preAborted |-> FALSE, preFailed |-> FALSE,
               preRefused |-> FALSE, bound |-> 0, executed |-> 0, code |-> 0,
               eff |-> [outcome |-> "returned", ret |-> TRUE, lines |-> 0,
                        aborted |-> FALSE, sends |-> <<>>, echoed |-> <<>>,
                        raw |-> <<>>, lookups |-> 0, diag |-> 0, out |-> <<>>,
                        fn |-> <<>>, steps |-> 0, underflow |-> FALSE]]

\* a query message with the given cap, flags and path filters, no line range
Query(max, flags, pathFilters) ==
    [present |-> TRUE, max |-> max, minLine |-> -1, maxLine |-> -1,
     flags |-> flags, pathFilters |-> pathFilters]

\* a CursorInfo named after its place
Info(kind, isDefinition, name, startLine, startColumn, endLine, endColumn) ==
    [symbolName |-> name, displayName |-> <<"d">> \o name, kindSpelling |-> <<"k">>,
     kind |-> kind, isDefinition |-> isDefinition,
     startLine |-> startLine, startColumn |-> startColumn,
     endLine |-> endLine, endColumn |-> endColumn]

Loc(fileId, line, column) == [fileId |-> fileId, line |-> line, column |-> column]

---------------------------------------------------------------------------
(* Spec: streaming under the cap, with Connection failures.  execute()    *)
(* makes its calls inside run(), as QueryJob's callers do.                 *)

\* file 1's lines pass the literal filter, file 2's do not
StreamFilter == << Path(1) >>

StreamLines == { Path(1), Path(2) }

StreamTable ==
    << [loc |-> Loc(1, 1, 1), info |-> Info("FunctionDecl", TRUE, <<"f">>, 1, 1, 9, 1)],
       [loc |-> Loc(1, 2, 1), info |-> Info("VarDecl", TRUE, <<"v">>, 2, 1, 2, 1)] >>

StreamLocations == { NullLocation, Loc(1, 2, 1), Loc(2, 1, 1) }

AnnotationFlags == {"ContainingFunction", "CursorKind", "DisplayName"}

StreamQueries ==
    {NoQuery, Query(1, AnnotationFlags \cup {"SilentQuery"}, StreamFilter)}
        \cup { Query(max, AnnotationFlags, StreamFilter) : max \in {-1} \cup 0..MaxCap }

Init ==
    \E query \in StreamQueries, jobFlags \in SUBSET {"WriteUnfiltered", "QuietJob"} :
        Constructed("debug", query, jobFlags, StreamTable)

Next ==
    \/ \E c \in Connections : Run(c)
    \/ Finish(0)
    \/ \E out \in StreamLines, flags \in SUBSET {"IgnoreMax", "Unfiltered"},
          connOk \in BOOLEAN :
           pc = "executing" /\ WriteText(out, flags, connOk)
    \/ \E flags \in SUBSET {"IgnoreMax"}, connOk \in BOOLEAN :
           pc = "executing" /\ WriteRaw(Path(1), flags, connOk)
    \/ \E location \in StreamLocations, flags \in {{}, WriteFlags}, connOk \in BOOLEAN :
           pc = "executing" /\ WriteLocation(location, flags, connOk, "break")

Spec == Init /\ [][Next]_vars

---------------------------------------------------------------------------
(* Claims checked under Spec *)

\* the last call was one of the output methods
IsWriteCall == last.op \in {"write", "writeRaw", "writeLocation"}

\* the job was built from a query message with a cap N >= 0
Capped == mQueryMessage.present /\ mQueryMessage.max >= 0

\* the last call was made without IgnoreMax once linesWritten had reached the cap
AtCap == IsWriteCall /\ "IgnoreMax" \notin last.flags /\ last.preLines = mQueryMessage.max

\* the last call's line was rejected by filter (write(out) returned at line 94)
FilteredOut ==
    /\ "WriteUnfiltered" \notin mJobFlags
    /\ \/ last.op = "write" /\ "Unfiltered" \notin last.flags /\ ~filter(last.line)
       \/ last.op = "writeLocation" /\ last.eff.out # <<>> /\ ~filter(last.eff.out)

\* a send of the last call failed
SendFailed == \E k \in 1..Len(last.eff.sends) : ~last.eff.sends[k].ok

\* C1 as stated: with max = N >= 0, calls without IgnoreMax send at most N
\* lines, and every such call made once linesWritten = N returns false, does
\* not reach the Connection and leaves linesWritten unchanged.
C1_CapAsStated ==
    Capped =>
        /\ sentCapped <= mQueryMessage.max
        /\ AtCap => /\ last.eff.outcome = "returned"
                    /\ last.eff.ret = FALSE
                    /\ last.eff.sends = <<>>
                    /\ mLinesWritten = last.preLines

\* C1 amended: as C1, except that the call returns false unless it is a write
\* whose line filter rejects, which returns true (still sending nothing and
\* counting nothing).
C1_Cap ==
    Capped =>
        /\ sentCapped <= mQueryMessage.max
        /\ AtCap => /\ last.eff.outcome = "returned"
                    /\ last.eff.ret = FilteredOut
                    /\ last.eff.sends = <<>>
                    /\ mLinesWritten = last.preLines

\* a writeRaw refused at the cap after N >= 1 lines were sent
C1_Witness ==
    /\ Capped /\ AtCap
    /\ last.op = "writeRaw"
    /\ mQueryMessage.max >= 1
    /\ sentCapped = mQueryMessage.max
    /\ last.eff.ret = FALSE

\* C2: a failed send makes the call return false and sets aborted; once
\* aborted is true no operation (a later write, a refusal, a filtered line, a
\* successful send, the unbinding at the end of run) makes it false again.
C2_AbortedSticky ==
    /\ (IsWriteCall /\ SendFailed) => (last.eff.ret = FALSE /\ mAborted)
    /\ last.preAborted => mAborted

\* a successful send made after the job was aborted leaves it aborted
C2_Witness ==
    /\ last.preAborted /\ mAborted
    /\ IsWriteCall
    /\ last.eff.sends # <<>> /\ ~SendFailed
    /\ last.eff.ret = TRUE

\* C5 as stated: after a send has failed in a run, no later write call of that
\* run delivers a line to the Connection and reports true.
C5_NoDeliveryAfterFailure ==
    ~(IsWriteCall /\ last.preFailed /\ last.eff.ret = TRUE
        /\ last.eff.sends # <<>> /\ ~SendFailed)

\* C5 amended: after a failed send the job stays aborted for the rest of the
\* run and never retries: every call makes at most one send attempt, of the
\* line handed to this very call, and returns what the Connection returned
\* (so a later call that the Connection accepts is delivered and reports true).
C5_NoRetry ==
    /\ failedInRun => mAborted
    /\ IsWriteCall =>
          /\ Len(last.eff.sends) <= 1
          /\ last.eff.sends # <<>> =>
                /\ last.eff.sends[1].line = last.eff.raw[1]
                /\ last.eff.ret = last.eff.sends[1].ok

\* a call after a failure of the same run that is delivered and reports true
C5_Witness ==
    /\ IsWriteCall /\ last.preFailed /\ mAborted
    /\ last.eff.ret = TRUE
    /\ last.eff.sends # <<>> /\ ~SendFailed

\* C6: write(location) with a null Location returns false and changes
\* nothing: no send, no echo, no symbol lookup, no diagnostic, linesWritten and
\* aborted as before.
C6_NullLocation ==
    (last.op = "writeLocation" /\ isNull(last.loc)) =>
        /\ last.eff.outcome = "returned"
        /\ last.eff.ret = FALSE
        /\ last.eff.sends = <<>> /\ last.eff.echoed = <<>> /\ last.eff.raw = <<>>
        /\ last.eff.lookups = 0 /\ last.eff.diag = 0
        /\ mLinesWritten = last.preLines
        /\ mAborted = last.preAborted

\* a null Location written by a non-quiet job whose query asks for annotations
\* and whose cap is not yet reached
C6_Witness ==
    /\ last.op = "writeLocation" /\ isNull(last.loc)
    /\ "ContainingFunction" \in queryFlags
    /\ "QuietJob" \notin mJobFlags
    /\ Capped /\ mLinesWritten < mQueryMessage.max
    /\ last.eff.ret = FALSE

\* the flags the last call's writeRaw was given carried IgnoreMax (only
\* write(out, flags) and writeRaw(out, flags) hand their flags on)
PassedIgnoreMax == last.op \in {"write", "writeRaw"} /\ "IgnoreMax" \in last.flags

\* the last call reached writeRaw
ReachedWriteRaw == IsWriteCall /\ last.eff.raw # <<>>

\* the last call reached writeRaw without IgnoreMax when linesWritten had
\* reached the query's cap
CapReached ==
    /\ ReachedWriteRaw /\ ~PassedIgnoreMax
    /\ mQueryMessage.present /\ mQueryMessage.max # -1
    /\ last.preLines = mQueryMessage.max

\* the last call was a write(out, flags) whose line filter rejects
FilteredWrite ==
    /\ last.op = "write"
    /\ "WriteUnfiltered" \notin mJobFlags /\ "Unfiltered" \notin last.flags
    /\ ~filter(last.line)

\* C11: a write(line, flags) whose line filter rejects (neither
\* WriteUnfiltered nor Unfiltered set) returns true and changes nothing: no
\* send, no echo, writeRaw not reached, linesWritten and aborted as before;
\* also at the cap and on an aborted job.
C11_FilteredNoOp ==
    FilteredWrite =>
        /\ last.eff.outcome = "returned"
        /\ last.eff.ret = TRUE
        /\ last.eff.sends = <<>> /\ last.eff.echoed = <<>> /\ last.eff.raw = <<>>
        /\ mLinesWritten = last.preLines
        /\ mAborted = last.preAborted

\* a rejected line written by a non-quiet, aborted job that is at its cap,
\* with IgnoreMax
C11_Witness ==
    /\ FilteredWrite
    /\ "QuietJob" \notin mJobFlags
    /\ last.preAborted
    /\ Capped /\ last.preLines = mQueryMessage.max /\ mQueryMessage.max >= 1
    /\ "IgnoreMax" \in last.flags
    /\ last.eff.ret = TRUE

\* C12: a writeRaw refused by the cap returns false, does not set aborted
\* and does not touch the Connection; later in the same run a call with
\* IgnoreMax is sent, is not counted and returns the Connection's result, and
\* a call without IgnoreMax is refused again.
C12_RefusalIsNotAnError ==
    /\ CapReached =>
          /\ last.eff.outcome = "returned"
          /\ last.eff.ret = FALSE
          /\ last.eff.sends = <<>>
          /\ mAborted = last.preAborted
          /\ mLinesWritten = last.preLines
    /\ (last.preRefused /\ ReachedWriteRaw /\ PassedIgnoreMax) =>
          /\ last.eff.outcome = "returned"
          /\ Len(last.eff.sends) = 1
          /\ last.eff.sends[1].line = last.eff.raw[1]
          /\ last.eff.ret = last.eff.sends[1].ok
          /\ mLinesWritten = last.preLines
    /\ (last.preRefused /\ ReachedWriteRaw /\ ~PassedIgnoreMax) =>
          /\ last.eff.ret = FALSE
          /\ last.eff.sends = <<>>

\* after a refusal in this run, on a job that never aborted, a writeRaw with
\* IgnoreMax is accepted by the Connection and leaves linesWritten at the cap
C12_Witness ==
    /\ last.preRefused /\ ~mAborted
    /\ last.op = "writeRaw" /\ "IgnoreMax" \in last.flags
    /\ Capped /\ mQueryMessage.max >= 1
    /\ last.eff.sends # <<>> /\ last.eff.ret = TRUE
    /\ mLinesWritten = mQueryMessage.max

\* what a non-quiet job echoes for the last call if the call echoes
EchoOf(quiet) == IF quiet THEN <<>> ELSE last.eff.raw

\* C15 as stated: a non-quiet job echoes the line of every call that reaches
\* writeRaw, also one made when linesWritten has reached max, one whose send
\* fails and one made after the abort; a quiet job (QuietJob, or a query
\* with the silent flag) echoes nothing.
C15_EchoAsStated ==
    ReachedWriteRaw =>
        last.eff.echoed =
            EchoOf("QuietJob" \in mJobFlags \/ "SilentQuery" \in queryFlags)

\* C15 amended: as C15, except that a call refused by the cap (made without
\* IgnoreMax when linesWritten has reached max) echoes nothing: the echo
\* follows the cap test.  Every call that passes the cap test echoes, also when
\* its send fails, when the job is aborted, and when it passes at the cap
\* thanks to IgnoreMax.
C15_Echo ==
    ReachedWriteRaw =>
        last.eff.echoed =
            EchoOf(\/ "QuietJob" \in mJobFlags
                   \/ "SilentQuery" \in queryFlags
                   \/ CapReached)

\* an aborted, non-quiet job at its cap echoes an IgnoreMax line whose send
\* fails
C15_Witness ==
    /\ ReachedWriteRaw /\ PassedIgnoreMax
    /\ "QuietJob" \notin mJobFlags
    /\ last.preAborted /\ SendFailed
    /\ Capped /\ last.preLines = mQueryMessage.max /\ mQueryMessage.max >= 1
    /\ last.eff.echoed = last.eff.raw

\* C19: with max = N >= 0, 0 <= linesWritten <= N and linesWritten is the
\* number of calls that passed writeRaw's cap test without IgnoreMax (each
\* made one send, accepted or not); a failed send counts; the assertion
\* before the increment never fails.
C19_CountsAttempts ==
    Capped =>
        /\ 0 <= mLinesWritten /\ mLinesWritten <= mQueryMessage.max
        /\ mLinesWritten = sentCapped
        /\ IsWriteCall => last.eff.outcome # "assert"
        /\ (ReachedWriteRaw /\ ~PassedIgnoreMax /\ SendFailed) =>
               mLinesWritten = last.preLines + 1

\* the only counted line of a job with max = 1 was not accepted by the
\* Connection: linesWritten is 1, no counted line was sent successfully
C19_Witness ==
    /\ Capped /\ mQueryMessage.max = 1
    /\ ReachedWriteRaw /\ ~PassedIgnoreMax /\ SendFailed
    /\ last.preLines = 0 /\ mLinesWritten = 1 /\ sentCapped = 1

---------------------------------------------------------------------------
(* SpecBind: run() after run(), with output calls made inside and outside  *)
(* run(), in a debug and in a release build                                *)

\* the codes execute() returns
ExecuteCodes == {0, 1}

BindQueries == {NoQuery, Query(-1, {}, <<>>), Query(1, {}, <<>>)}

InitBind ==
    \E b \in {"debug", "release"}, query \in BindQueries,
       jobFlags \in {{}, {"QuietJob"}} :
        Constructed(b, query, jobFlags, <<>>)

NextBind ==
    \/ \E c \in Connections : Run(c)
    \/ \E ret \in ExecuteCodes : Finish(ret)
    \/ \E flags \in SUBSET {"IgnoreMax"}, connOk \in BOOLEAN :
           WriteRaw(Path(1), flags, connOk)
    \/ \E connOk \in BOOLEAN : WriteText(Path(2), {}, connOk)

SpecBind == InitBind /\ [][NextBind]_vars

\* C13: no Connection is bound before run() and after it returns; during
\* execute() exactly the Connection passed to run() is bound; run() returns
\* the code execute() returned; a line reaches a Connection only inside a
\* run(), and then the Connection passed to that run().
C13_BindingScopedToRun ==
    /\ pc = "idle" => mConnection = 0
    /\ pc = "executing" => (mConnection = running /\ running \in Connections)
    /\ last.op = "finish" => last.code = last.executed
    /\ (IsWriteCall /\ last.eff.sends # <<>>) =>
          (running \in Connections /\ last.bound = running)

\* inside a run() that was passed Connection 2, a line reaches the bound
\* Connection after an earlier line was sent
C13_Witness ==
    /\ last.op = "writeRaw" /\ last.eff.sends # <<>>
    /\ running = 2 /\ last.bound = 2
    /\ sentCapped >= 2

\* C16: a write or writeRaw call made while no Connection is bound stops at
\* the assertion in a debug build; in a release build it does not return
\* true and does not change linesWritten.
C16_UnboundWriteFails ==
    (IsWriteCall /\ last.bound = 0) =>
        IF build = "debug"
        THEN last.eff.outcome = "assert"
        ELSE /\ ~(last.eff.outcome = "returned" /\ last.eff.ret = TRUE)
             /\ mLinesWritten = last.preLines

---------------------------------------------------------------------------
(* SpecRange: write(location) under every line range of the query          *)

\* a query message restricted to the lines minLine..maxLine, without cap
RangeQuery(minLine, maxLine, flags) ==
    [Query(-1, flags, <<>>) EXCEPT !.minLine = minLine, !.maxLine = maxLine]

\* minLine and maxLine are set together or not at all
RangePairs ==
    { <<-1, -1>> } \cup { <<a, b>> : a \in 1..MaxLine, b \in 1..MaxLine }

RangeQueries ==
    {NoQuery} \cup
    { RangeQuery(r[1], r[2], flags) :
        r \in RangePairs, flags \in {{}, {"CursorKind", "DisplayName"}} }

\* line 1 and line 2 of file 1 are keys of StreamTable, the others are not
RangeLocations == { Loc(1, line, 1) : line \in 1..(MaxLine + 1) }

InitRange ==
    \E query \in RangeQueries, jobFlags \in {{}, {"QuietJob"}} :
        Constructed("debug", query, jobFlags, StreamTable)

NextRange ==
    \/ Run(1)
    \/ \E location \in RangeLocations, connOk \in BOOLEAN :
           pc = "executing" /\ WriteLocation(location, {}, connOk, "break")

SpecRange == InitRange /\ [][NextRange]_vars

\* the query sets a line range and the last call's Location is outside it
OutOfRange ==
    /\ mQueryMessage.present /\ mQueryMessage.minLine # -1
    /\ \/ last.loc.line < mQueryMessage.minLine
       \/ last.loc.line > mQueryMessage.maxLine

\* C14: write(location) for a non-null Location outside the query's line
\* range returns false before any formatting: no send, no echo, no symbol
\* lookup, linesWritten and aborted as before.  A Location inside the range
\* (ends included), or any Location without a range or without a query
\* message, goes on to be formatted and looked up.
C14_LineRange ==
    (last.op = "writeLocation" /\ ~isNull(last.loc)) =>
        IF OutOfRange
        THEN /\ last.eff.outcome = "returned"
             /\ last.eff.ret = FALSE
             /\ last.eff.sends = <<>> /\ last.eff.echoed = <<>>
             /\ last.eff.raw = <<>> /\ last.eff.out = <<>>
             /\ last.eff.lookups = 0 /\ last.eff.diag = 0
             /\ mLinesWritten = last.preLines
             /\ mAborted = last.preAborted
        ELSE /\ IsPrefix(key(last.loc), last.eff.out)
             /\ last.eff.raw = <<last.eff.out>>
             /\ last.eff.lookups = IF queryFlags = {} THEN 0 ELSE 1

\* a key of the table one line past maxLine, written by a non-quiet job
\* whose query asks for annotations
C14_Witness ==
    /\ last.op = "writeLocation"
    /\ OutOfRange
    /\ last.loc.line = mQueryMessage.maxLine + 1
    /\ find(last.loc) <= Len(symbols)
    /\ "CursorKind" \in queryFlags /\ "QuietJob" \notin mJobFlags
    /\ last.eff.ret = FALSE

---------------------------------------------------------------------------
(* SpecAnnotate: write(location) under every choice of the three           *)
(* annotation flags, for keys of the table and for other Locations         *)

\* a function of file 1, a variable inside it, and the first entry of file 2
AnnotateTable ==
    << [loc |-> Loc(1, 1, 1), info |-> Info("FunctionDecl", TRUE, <<"f">>, 1, 1, 9, 1)],
       [loc |-> Loc(1, 2, 1), info |-> Info("VarDecl", TRUE, <<"v">>, 2, 1, 2, 1)],
       [loc |-> Loc(2, 1, 1), info |-> Info("VarDecl", TRUE, <<"w">>, 1, 1, 1, 1)] >>

\* the three keys and a Location that is not a key
AnnotateLocations == { Loc(1, 1, 1), Loc(1, 2, 1), Loc(2, 1, 1), Loc(1, 3, 1) }

AnnotateQueries ==
    {NoQuery} \cup { Query(-1, flags, <<>>) : flags \in SUBSET AnnotationFlags }

InitAnnotate ==
    \E query \in AnnotateQueries :
        Constructed("debug", query, {"QuietJob"}, AnnotateTable)

NextAnnotate ==
    \/ Run(1)
    \/ \E location \in AnnotateLocations, connOk \in BOOLEAN :
           \E ub \in (IF find(location) = 1 /\ "ContainingFunction" \in queryFlags
                       THEN UBOutcomes ELSE {"break"}) :
               pc = "executing" /\ WriteLocation(location, {}, connOk, ub)

SpecAnnotate == InitAnnotate /\ [][NextAnnotate]_vars

\* the number of places where p occurs in s
Occurrences(s, p) ==
    Cardinality({ i \in 0..(Len(s) - Len(p)) : SubSeq(s, i + 1, i + Len(p)) = p })

\* the record the table holds for the last call's Location
EntryOf(L) == symbols[CHOOSE k \in 1..Len(symbols) : symbols[k].loc = L].info

\* key, then display name, then kind, then the function that was found
ExpectedLine(L) ==
    key(L)
      \o (IF "DisplayName" \in queryFlags THEN <<TAB>> \o EntryOf(L).displayName ELSE <<>>)
      \o (IF "CursorKind" \in queryFlags THEN <<TAB>> \o EntryOf(L).kindSpelling ELSE <<>>)
      \o (IF last.eff.fn # <<>> THEN FunctionPrefix \o last.eff.fn ELSE <<>>)

\* C17: the line of write(location) is the key, then "\t" + displayName,
\* then "\t" + kindSpelling, then "\tfunction: " + name, each only if
\* requested and the function at most once; when an annotation is requested
\* and the Location is not a key, one diagnostic is emitted, nothing is
\* appended and the key goes through write(text), whose result is returned.
C17_AnnotatedLine ==
    (last.op = "writeLocation" /\ ~isNull(last.loc) /\ last.eff.outcome = "returned") =>
        /\ Occurrences(last.eff.out, FunctionPrefix) <= 1
        /\ "ContainingFunction" \notin queryFlags => last.eff.fn = <<>>
        /\ IF queryFlags \cap AnnotationFlags = {}
           THEN last.eff.out = key(last.loc) /\ last.eff.diag = 0
           ELSE IF find(last.loc) > Len(symbols)
           THEN /\ last.eff.diag = 1
                /\ last.eff.out = key(last.loc)
                /\ last.eff.raw = <<key(last.loc)>>
                /\ Len(last.eff.sends) = 1
                /\ last.eff.sends[1].line = key(last.loc)
                /\ last.eff.ret = last.eff.sends[1].ok
           ELSE /\ last.eff.diag = 0
                /\ last.eff.out = ExpectedLine(last.loc)
                /\ last.eff.raw = <<last.eff.out>>

\* "/1:2:1", "\tdv", "\tk", "\tfunction: f" for the variable inside f
C17_Witness ==
    /\ last.op = "writeLocation" /\ last.loc = Loc(1, 2, 1)
    /\ queryFlags = AnnotationFlags
    /\ last.eff.out = key(Loc(1, 2, 1)) \o <<TAB, "d", "v">> \o <<TAB, "k">>
                          \o FunctionPrefix \o <<"f">>
    /\ last.eff.ret = TRUE

---------------------------------------------------------------------------
(* SpecQuote: write(out, flags) over every short line of quotes,           *)
(* backslashes and letters, by jobs with and without QuoteOutput, to a     *)
(* Connection that accepts every line                                      *)

QuoteLines == SeqsUpTo({DQ, BS, "a"}, MaxQuoteLen)

InitQuote ==
    \E jobFlags \in {{"QuietJob"}, {"QuietJob", "QuoteOutput"}} :
        Constructed("debug", NoQuery, jobFlags, <<>>)

NextQuote ==
    \/ Run(1)
    \/ \E out \in QuoteLines, flags \in SUBSET {"DontQuote"} :
           pc = "executing" /\ WriteText(out, flags, TRUE)

SpecQuote == InitQuote /\ [][NextQuote]_vars

\* s with every double quote replaced by backslash + double quote
RECURSIVE Escaped(_)
Escaped(s) ==
    IF s = <<>> THEN <<>>
    ELSE (IF Head(s) = DQ THEN <<BS, DQ>> ELSE <<Head(s)>>) \o Escaped(Tail(s))

\* s with every backslash + double quote replaced by a double quote
RECURSIVE Unescaped(_)
Unescaped(s) ==
    IF s = <<>> THEN <<>>
    ELSE IF Len(s) >= 2 /\ s[1] = BS /\ s[2] = DQ
         THEN <<DQ>> \o Unescaped(SubSeq(s, 3, Len(s)))
         ELSE <<s[1]>> \o Unescaped(Tail(s))

CountDQ(s) == Cardinality({i \in 1..Len(s) : s[i] = DQ})

\* the last call was a write(out, flags) that quoted its line
QuotedWrite ==
    /\ last.op = "write" /\ last.eff.raw # <<>>
    /\ "QuoteOutput" \in mJobFlags /\ "DontQuote" \notin last.flags

\* C9: with QuoteOutput and without DontQuote the text handed to writeRaw is
\* a double quote, the line with every double quote replaced by backslash +
\* double quote and every other byte unchanged, and a double quote; its length
\* is len + number of double quotes + 2.  Otherwise the line is handed on
\* unchanged.
C9_QuotedText ==
    (last.op = "write" /\ last.eff.raw # <<>>) =>
        IF QuotedWrite
        THEN /\ last.eff.raw[1] = <<DQ>> \o Escaped(last.line) \o <<DQ>>
             /\ Len(last.eff.raw[1]) = Len(last.line) + CountDQ(last.line) + 2
             /\ CountDQ(last.line) = 0 => last.eff.raw[1] = <<DQ>> \o last.line \o <<DQ>>
        ELSE last.eff.raw[1] = last.line

\* the line \" quoted as "\\"" (the backslash copied, the quote escaped)
C9_Witness ==
    /\ QuotedWrite
    /\ last.line = <<BS, DQ>>
    /\ last.eff.raw[1] = <<DQ, BS, BS, DQ, DQ>>

\* C10: stripping the outer quotes of the quoted text and replacing each
\* backslash + double quote by a double quote gives back the line.
C10_RoundTrip ==
    QuotedWrite =>
        /\ Len(last.eff.raw[1]) >= 2
        /\ Unescaped(SubSeq(last.eff.raw[1], 2, Len(last.eff.raw[1]) - 1)) = last.line

\* a quoted line that holds a quote and ends in a backslash
C10_Witness ==
    /\ QuotedWrite
    /\ Len(last.line) >= 2
    /\ last.line[1] = DQ
    /\ last.line[Len(last.line)] = BS

---------------------------------------------------------------------------
(* SpecBypass: write(out, flags) of system paths and of other lines, with  *)
(* and without the two bypass flags                                        *)

\* "/u/1" and "/u/" lie in the system include tree; "/1" and "/u/1" match
\* the pattern "1"
BypassLines == { <<"/", "u", "/", "1">>, SystemRoot, Path(1), Path(2) }

BypassQueries ==
    { Query(-1, {"MatchRegex"} \cup flags, pf) :
        flags \in SUBSET {"FilterSystemIncludes"}, pf \in { <<>>, << <<"1">> >> } }

InitBypass ==
    \E query \in BypassQueries, jobFlags \in SUBSET {"WriteUnfiltered", "QuoteOutput"} :
        Constructed("debug", query, jobFlags \cup {"QuietJob"}, <<>>)

NextBypass ==
    \/ Run(1)
    \/ \E out \in BypassLines, flags \in SUBSET {"Unfiltered", "DontQuote"},
          connOk \in BOOLEAN :
           pc = "executing" /\ WriteText(out, flags, connOk)

SpecBypass == InitBypass /\ [][NextBypass]_vars

\* what write hands to writeRaw for text: quoted if the job quotes and the
\* call flags do not opt out
Forwarded(text, flags) ==
    IF "QuoteOutput" \in mJobFlags /\ "DontQuote" \notin flags
    THEN <<DQ>> \o Escaped(text) \o <<DQ>>
    ELSE text

\* C18: with WriteUnfiltered or Unfiltered set, write(line, flags) does not
\* filter at all: also a system path under 'exclude system paths', and a
\* line that matches no active filter, is quoted as configured and handed to
\* writeRaw, which sends it.
C18_BypassIsTotal ==
    (/\ last.op = "write"
     /\ "WriteUnfiltered" \in mJobFlags \/ "Unfiltered" \in last.flags) =>
        /\ last.eff.raw = <<Forwarded(last.line, last.flags)>>
        /\ Len(last.eff.sends) = 1
        /\ last.eff.sends[1].line = last.eff.raw[1]
        /\ last.eff.ret = last.eff.sends[1].ok

\* the system path "/u/", which matches no active filter, written with
\* Unfiltered under 'exclude system paths' by a quoting job, and sent quoted
C18_Witness ==
    /\ last.op = "write" /\ last.line = SystemRoot
    /\ "Unfiltered" \in last.flags /\ "WriteUnfiltered" \notin mJobFlags
    /\ "FilterSystemIncludes" \in queryFlags
    /\ ~mPathFiltersRegex.isNull
    /\ ~filter(last.line)
    /\ last.eff.sends = <<[line |-> <<DQ>> \o SystemRoot \o <<DQ>>, ok |-> TRUE]>>
    /\ last.eff.ret = TRUE

---------------------------------------------------------------------------
(* SpecFlags: write(location, flags) and write(ci, ciflags) under every    *)
(* combination of the caller's flags, with a filter, a cap and quoting     *)

\* symbol records named "f1" (matches the pattern "1") and "g", an empty
\* record and a null pointer
FlagsRecords ==
    { Pointer(FALSE, Info("FunctionDecl", TRUE, <<"f", "1">>, 1, 1, 2, 1)),
      Pointer(FALSE, Info("FunctionDecl", TRUE, <<"g">>, 1, 1, 2, 1)),
      Pointer(FALSE, Info("Invalid", FALSE, <<>>, 0, 0, 0, 0)),
      Pointer(TRUE, Info("Invalid", FALSE, <<>>, 0, 0, 0, 0)) }

\* "/1:2:1" matches the pattern "1", "/2:2:2" does not
FlagsLocations == { Loc(1, 2, 1), Loc(2, 2, 2) }

FlagsQueries == { Query(max, {"MatchRegex"}, << <<"1">> >>) : max \in {-1, 0, 1} }

InitFlags ==
    \E query \in FlagsQueries, jobFlags \in SUBSET {"WriteUnfiltered", "QuoteOutput"} :
        Constructed("debug", query, jobFlags \cup {"QuietJob"}, <<>>)

NextFlags ==
    \/ Run(1)
    \/ \E location \in FlagsLocations, flags \in SUBSET WriteFlags, connOk \in BOOLEAN :
           pc = "executing" /\ WriteLocation(location, flags, connOk, "break")
    \/ \E ci \in FlagsRecords, ciflags \in SUBSET WriteFlags, connOk \in BOOLEAN :
           pc = "executing" /\ WriteCursorInfo(ci, ciflags, connOk)

SpecFlags == InitFlags /\ [][NextFlags]_vars

\* the text the last call assembled: the Location's line or the record's text
AssembledText == IF last.op = "writeLocation" THEN last.eff.out ELSE last.line

\* the last call was a write(location) or write(ci) that assembled its text
AssembledWrite ==
    /\ last.op \in {"writeLocation", "writeCursorInfo"}
    /\ AssembledText # <<>>

\* C20: the flags given to write(location, flags) and write(ci, flags) are
\* not call flags of the text write: whatever they are, the text is filtered
\* unless the job has WriteUnfiltered, quoted if the job has QuoteOutput, and
\* counted against the cap.
C20_CallerFlagsIgnored ==
    AssembledWrite =>
        IF "WriteUnfiltered" \notin mJobFlags /\ ~filter(AssembledText)
        THEN /\ last.eff.ret = TRUE
             /\ last.eff.raw = <<>> /\ last.eff.sends = <<>>
             /\ mLinesWritten = last.preLines
        ELSE /\ last.eff.raw = <<Forwarded(AssembledText, {})>>
             /\ IF mQueryMessage.max # -1 /\ last.preLines = mQueryMessage.max
                THEN /\ last.eff.ret = FALSE
                     /\ last.eff.sends = <<>>
                     /\ mLinesWritten = last.preLines
                ELSE /\ Len(last.eff.sends) = 1
                     /\ last.eff.sends[1].line = last.eff.raw[1]
                     /\ mLinesWritten = last.preLines + 1

\* a Location written with Unfiltered, DontQuote and IgnoreMax by a quoting
\* job at its cap: the line is quoted and refused
C20_Witness ==
    /\ last.op = "writeLocation" /\ last.flags = WriteFlags
    /\ "QuoteOutput" \in mJobFlags
    /\ mQueryMessage.max = 1 /\ last.preLines = 1
    /\ last.eff.raw = <<<<DQ>> \o key(last.loc) \o <<DQ>>>>
    /\ last.eff.ret = FALSE /\ last.eff.sends = <<>>

---------------------------------------------------------------------------
(* SpecFilter: filter(value) over every short line, under every mode.      *)
(* filter is const, so a second call from the state a call leaves reaches  *)
(* nothing new: one call is explored per job.                              *)

\* "  /a/x.h: foo" and "/c/x.h", with the prefixes "/a/" and "/b/"
ExampleAccepted == <<SP, SP, "/", "a", "/", "x", ".", "h", ":", SP, "f", "o", "o">>
ExampleRejected == <<"/", "c", "/", "x", ".", "h">>
ExamplePrefixes == << <<"/", "a", "/">>, <<"/", "b", "/">> >>

FilterLines ==
    SeqsUpTo({SP, "/", "u"}, MaxFilterLen)
        \cup {ExampleAccepted, ExampleRejected, <<TAB, "/", "a">>}

FilterSets == { <<>>, ExamplePrefixes, << <<"/", "a">> >>, << <<"/", "u">> >>,
                << <<"a">>, <<"u", "/">> >>, << <<"/">> >> }

FilterQueries ==
    {NoQuery} \cup
    { Query(-1, flags, pf) : flags \in SUBSET {"MatchRegex", "FilterSystemIncludes"},
                             pf \in FilterSets }

InitFilter == \E query \in FilterQueries : Constructed("debug", query, {}, <<>>)

NextFilter == \E value \in FilterLines : last.op = "new" /\ Filter(value)

SpecFilter == InitFilter /\ [][NextFilter]_vars

\* s without its leading whitespace
Trimmed(s) ==
    LET first == CHOOSE i \in 1..(Len(s) + 1) :
                     /\ \A j \in 1..(i - 1) : isspace(s[j])
                     /\ i <= Len(s) => ~isspace(s[i])
    IN  SubSeq(s, first, Len(s))

\* the query's filters, as the set the spec speaks of
RequestedFilters == {mQueryMessage.pathFilters[k] : k \in 1..Len(mQueryMessage.pathFilters)}

\* the reference predicate of C7, on the query the job was built from
FilterReference(line) ==
    LET active == RequestedFilters # {}
        excludeSystem == "FilterSystemIncludes" \in queryFlags
        t == Trimmed(line)
    IN  IF ~active /\ ~excludeSystem THEN TRUE
        ELSE IF excludeSystem /\ IsPrefix(SystemRoot, t) THEN FALSE
        ELSE IF ~active THEN TRUE
        ELSE IF "MatchRegex" \notin queryFlags
             THEN \E p \in RequestedFilters : IsPrefix(p, t)
             ELSE \E p \in RequestedFilters : Contains(t, p)

\* C7: filter(line) is the reference predicate: true without filters and
\* without 'exclude system paths'; else, on the trimmed line, false for a
\* system path under 'exclude system paths', else true without filters, else
\* (literal) some prefix starts the line, else (pattern) some pattern occurs.
C7_FilterReference ==
    last.op = "filter" => last.eff.ret = FilterReference(last.line)

\* "  /a/x.h: foo" accepted under the prefixes "/a/" and "/b/"
C7_Witness ==
    /\ last.op = "filter"
    /\ last.line = ExampleAccepted
    /\ ~mPathFilters.isNull /\ mPathFilters.items = ExamplePrefixes
    /\ last.eff.ret = TRUE

\* C8: with 'exclude system paths' and a filter set both active, a line whose
\* trimmed text starts with a system path is rejected, whether or not it
\* matches a filter.
C8_SystemFirst ==
    (/\ last.op = "filter"
     /\ "FilterSystemIncludes" \in queryFlags
     /\ RequestedFilters # {}
     /\ IsPrefix(SystemRoot, Trimmed(last.line))) => last.eff.ret = FALSE

\* an indented system path that also starts with a literal prefix, rejected
C8_Witness ==
    /\ last.op = "filter"
    /\ "FilterSystemIncludes" \in queryFlags
    /\ "MatchRegex" \notin queryFlags
    /\ last.line # Trimmed(last.line)
    /\ IsPrefix(SystemRoot, Trimmed(last.line))
    /\ \E p \in RequestedFilters : IsPrefix(p, Trimmed(last.line))
    /\ last.eff.ret = FALSE

---------------------------------------------------------------------------
(* SpecWalk: write(location) with 'containing function' requested, over    *)
(* every small symbol table                                                *)

WalkPositions == { Loc(f, p[1], p[2]) : f \in {1, 2}, p \in {<<1, 1>>, <<1, 2>>, <<2, 1>>} }

\* the sequence of the locations of S in Location order
Sorted(S) ==
    CHOOSE seq \in [1..Cardinality(S) -> S] :
        \A i, j \in 1..Cardinality(S) : i < j => LocationLess(seq[i], seq[j])

NameOf(loc) == <<"f">> \o Digits(loc.fileId) \o Digits(loc.line) \o Digits(loc.column)

\* the records an entry may hold: a variable, a function declaration, a
\* function definition with one of three ranges
WalkShapes == {"var", "decl", "def 1:1-1:1", "def 1:1-1:2", "def 1:2-2:1"}

InfoOf(shape, loc) ==
    CASE shape = "var" -> Info("VarDecl", TRUE, NameOf(loc), loc.line, loc.column,
                               loc.line, loc.column)
      [] shape = "decl" -> Info("FunctionDecl", FALSE, NameOf(loc), 1, 1, 2, 1)
      [] shape = "def 1:1-1:1" -> Info("FunctionDecl", TRUE, NameOf(loc), 1, 1, 1, 1)
      [] shape = "def 1:1-1:2" -> Info("FunctionDecl", TRUE, NameOf(loc), 1, 1, 1, 2)
      [] shape = "def 1:2-2:1" -> Info("FunctionDecl", TRUE, NameOf(loc), 1, 2, 2, 1)

\* every table of at most MaxEntries entries at these positions, kept sorted
WalkTables ==
    UNION { { [k \in 1..Cardinality(S) |->
                 [loc |-> Sorted(S)[k], info |-> InfoOf(shape[Sorted(S)[k]], Sorted(S)[k])]]
              : shape \in [S -> WalkShapes] }
            : S \in {T \in SUBSET WalkPositions : Cardinality(T) <= MaxEntries} }

\* fileId 1, lines 10 (container definition, range 10-50), 20 (not a
\* container) and 30
ExampleTable ==
    << [loc |-> Loc(1, 10, 1), info |-> Info("FunctionDecl", TRUE, <<"m">>, 10, 1, 50, 1)],
       [loc |-> Loc(1, 20, 1), info |-> Info("VarDecl", TRUE, <<"v">>, 20, 1, 20, 1)],
       [loc |-> Loc(1, 30, 1), info |-> Info("VarDecl", FALSE, <<"r">>, 30, 1, 30, 1)] >>

WalkLocations == WalkPositions \cup {Loc(1, 25, 1), Loc(1, 5, 1), Loc(1, 30, 1)}

InitWalk ==
    \E table \in WalkTables \cup {ExampleTable} :
        Constructed("debug", Query(-1, {"ContainingFunction"}, <<>>), {"QuietJob"}, table)

NextWalk ==
    \/ Run(1)
    \/ \E location \in WalkLocations :
           \E ub \in (IF find(location) = 1 THEN UBOutcomes ELSE {"break"}) :
               pc = "executing" /\ WriteLocation(location, {}, TRUE, ub)

SpecWalk == InitWalk /\ [][NextWalk]_vars

\* position (line, column) lies in the range of ci, endpoints included
InRange(ci, line, column) ==
    /\ \/ ci.startLine < line
       \/ ci.startLine = line /\ ci.startColumn <= column
    /\ \/ line < ci.endLine
       \/ line = ci.endLine /\ column <= ci.endColumn

\* the entries before L, of L's file, that are container definitions around L
Enclosing(L) ==
    { k \in 1..Len(symbols) :
        /\ symbols[k].loc.fileId = L.fileId
        /\ LocationLess(symbols[k].loc, L)
        /\ symbols[k].info.isDefinition
        /\ isContainer(symbols[k].info.kind)
        /\ InRange(symbols[k].info, L.line, L.column) }

\* the name the claim expects after "\tfunction: ", <<>> for no suffix
ExpectedFunction(L) ==
    IF Enclosing(L) = {} THEN <<>>
    ELSE symbols[CHOOSE k \in Enclosing(L) : \A j \in Enclosing(L) : j <= k].info.symbolName

\* s ends with t
IsSuffix(t, s) == Len(t) <= Len(s) /\ SubSeq(s, Len(s) - Len(t) + 1, Len(s)) = t

\* the last call was a write(location) that went on to annotate
AnnotatedLocation ==
    /\ last.op = "writeLocation"
    /\ ~isNull(last.loc)
    /\ "ContainingFunction" \in queryFlags

\* C3: with 'containing function' requested, for any Location L, key of the
\* table or not, the line carries "\tfunction: " + symbolName of the nearest
\* entry before L, of L's file, that is a definition, a container and has L in
\* its range; without such an entry it carries no function suffix.
C3_ContainingFunction ==
    AnnotatedLocation =>
        /\ last.eff.outcome = "returned"
        /\ IF ExpectedFunction(last.loc) = <<>>
           THEN ~Contains(last.eff.out, FunctionPrefix)
           ELSE IsSuffix(FunctionPrefix \o ExpectedFunction(last.loc), last.eff.out)

\* the entries of the table before L
Before(L) == { k \in 1..Len(symbols) : LocationLess(symbols[k].loc, L) }

\* C4: the backward walk never moves the cursor before the first entry and
\* never reads outside the table; it raises no error, takes at most as many
\* steps as there are entries before the Location, and for a Location that
\* is the first entry of the table or of its file it appends no suffix.
C4_WalkStaysInTable ==
    AnnotatedLocation =>
        /\ ~last.eff.underflow
        /\ last.eff.outcome = "returned"
        /\ last.eff.steps <= Cardinality(Before(last.loc))
        /\ (\A k \in Before(last.loc) : symbols[k].loc.fileId # last.loc.fileId)
              => ~Contains(last.eff.out, FunctionPrefix)

=============================================================================
